---- MODULE Spec2Model ----
(***************************************************************************)
(* babel-unique-id: deterministic short IDs for Babel plugins.             *)
(*                                                                         *)
(* The module models                                                       *)
(*   - lib/hash.js      shortHash, sha256Hash                              *)
(*   - lib/package.js   findPackageRoot, readPackageJson                   *)
(*   - lib/index.js     createId (module.exports), conformOptions,         *)
(*                      getIdStrFromPath, validatePackage, in the two      *)
(*                      versions the source holds (lines 120-274 and       *)
(*                      323-417 of src/lib/package.js)                      *)
(*                                                                         *)
(* JS strings are sequences of one-character strings, JS values are        *)
(* records tagged with their typeof.                                       *)
(***************************************************************************)
EXTENDS Integers, Sequences, FiniteSets, TLC

VARIABLES
    impl,           \* which version of lib/index.js is loaded: 1 or 2
    pathSeparator,  \* require('path').sep of the platform: "/" or "\\"
    fs,             \* directory (string) -> what reading its package.json gives
    file,           \* state.file: [filename, code, store]
    hashed,         \* history: counter key -> the strings handed to shortHash
    last,           \* the createId call that has just returned or thrown
    digest,         \* hash.js on its own: the SHA-256 digest buffer
    hashLen,        \* hash.js on its own: the `len` argument
    hashOut,        \* hash.js on its own: what shortHash returned, a JS value
    walked,         \* package.js on its own: what findPackageRoot returned or threw
    twin            \* a second session on the same file, replaying the calls

vars == <<impl, pathSeparator, fs, file, hashed, last, digest, hashLen, hashOut, walked, twin>>

----------------------------------------------------------------------------
(* Bounds of the model *)

\* successful createId calls per session
MaxCalls == 3
\* largest `len` handed to shortHash when hash.js is checked on its own
MaxHashLen == 45

----------------------------------------------------------------------------
(* JS values *)

Undefined == [t |-> "undefined"]
Null == [t |-> "null"]
JsStr(s) == [t |-> "string", v |-> s]
JsBool(b) == [t |-> "boolean", v |-> b]
\* a number num/den, den > 0; integers have den = 1
JsNum(n, d) == [t |-> "number", num |-> n, den |-> d]
JsInt(n) == JsNum(n, 1)
JsSym(s) == [t |-> "symbol", v |-> s]

\* ToBoolean
Truthy(x) ==
    CASE x.t = "undefined" -> FALSE
      [] x.t = "null" -> FALSE
      [] x.t = "string" -> x.v # <<>>
      [] x.t = "boolean" -> x.v
      [] x.t = "number" -> x.num # 0
      [] OTHER -> TRUE

\* is-it-type
isString(x) == x.t = "string"
isFullString(x) == x.t = "string" /\ x.v # <<>>
isBoolean(x) == x.t = "boolean"
isPositiveInteger(x) == x.t = "number" /\ x.den = 1 /\ x.num > 0
isSymbol(x) == x.t = "symbol"

\* ToIntegerOrInfinity of a number: truncation towards zero
ToIntegerOrInfinity(x) ==
    IF x.num >= 0 THEN x.num \div x.den ELSE -((-x.num) \div x.den)

----------------------------------------------------------------------------
(* Strings *)

RECURSIVE Digits(_)
Digits(n) ==
    LET d == <<"0", "1", "2", "3", "4", "5", "6", "7", "8", "9">>
    IN  IF n < 10 THEN <<d[n + 1]>> ELSE Digits(n \div 10) \o <<d[(n % 10) + 1]>>

\* `${count}` of a non-negative integer
NumberToString(n) == Digits(n)

\* String.prototype.slice(0, end)
SliceTo(s, end) ==
    LET e == IF end < 0 THEN (IF Len(s) + end < 0 THEN 0 ELSE Len(s) + end)
             ELSE (IF end > Len(s) THEN Len(s) ELSE end)
    IN  SubSeq(s, 1, e)

\* String.prototype.replace(/=+$/, '')
RECURSIVE StripPadding(_)
StripPadding(s) ==
    IF s # <<>> /\ s[Len(s)] = "=" THEN StripPadding(SubSeq(s, 1, Len(s) - 1)) ELSE s

\* String.prototype.replace(/<from>/g, to) for a one-character pattern
ReplaceAll(s, from, to) == [i \in 1..Len(s) |-> IF s[i] = from THEN to ELSE s[i]]

----------------------------------------------------------------------------
(* lib/hash.js *)

Base64Alphabet ==
    <<"A","B","C","D","E","F","G","H","I","J","K","L","M","N","O","P",
      "Q","R","S","T","U","V","W","X","Y","Z","a","b","c","d","e","f",
      "g","h","i","j","k","l","m","n","o","p","q","r","s","t","u","v",
      "w","x","y","z","0","1","2","3","4","5","6","7","8","9","+","/">>

\* bytes of a SHA-256 digest
DigestBytes == 32

Pow2(k) == 2 ^ k

\* Buffer.prototype.toString('base64'): standard alphabet, '=' padding
Base64(bytes) ==
    LET n == Len(bytes)
        nChars == (8 * n + 5) \div 6
        padded == 4 * ((n + 2) \div 3)
        ByteAt(b) == IF b <= n THEN bytes[b] ELSE 0
        Sextet(k) ==
            LET b == (6 * k) \div 8
                o == (6 * k) % 8
            IN  ((ByteAt(b + 1) * 256 + ByteAt(b + 2)) \div Pow2(10 - o)) % 64
    IN  [k \in 1..padded |->
            IF k <= nChars THEN Base64Alphabet[Sextet(k - 1) + 1] ELSE "="]

\* characters the identity strings of the model are made of, for Sha256
CharTable ==
    Base64Alphabet \o
    <<"=", ":", "@", ".", "(", ")", ";", "_", "$", "\\", "-", " ">>

CharCode == [c \in {CharTable[i] : i \in 1..Len(CharTable)} |->
                CHOOSE i \in 1..Len(CharTable) : CharTable[i] = c]

\* the position-weighted sum of the character codes of s[lo..hi]
RECURSIVE WeightedSum(_, _, _)
WeightedSum(s, lo, hi) ==
    IF lo > hi THEN 0
    ELSE IF lo = hi THEN CharCode[s[lo]] * (lo * lo + 3 * lo + 1)
    ELSE LET mid == (lo + hi) \div 2
         IN  WeightedSum(s, lo, mid) + WeightedSum(s, mid + 1, hi)

Checksum(s) == (7 + 31 * Len(s) + WeightedSum(s, 1, Len(s))) % 65521

\* createHash('sha256').update(str).digest(): Node's crypto is outside the
\* repository, so the digest is a stand-in: a fixed function from strings to
\* 32 bytes (deterministic, spread over all byte values).
Sha256(str) ==
    LET h == Checksum(str)
    IN  [i \in 1..DigestBytes |-> ((h + i) * (2 * i + 35) + (h \div 256) * i) % 256]

\* sha256Hash(str, binary)
sha256Hash(str, binary) == IF binary THEN Sha256(str) ELSE Base64(Sha256(str))

\* buffer[0] &= 127
\* a digest left as it is: the first character may then be a digit
KeepFirstByte(buffer) == buffer

MaskFirstByte(buffer) == [buffer EXCEPT ![1] = @ % 128]

\* .slice(0, len) of shortHash
\* a truncation one character short
SliceShort(s, len) == SliceTo(s, ToIntegerOrInfinity(len) - 1)

SliceLen(s, len) == SliceTo(s, ToIntegerOrInfinity(len))

\* shortHash from line 31 on, applied to the digest buffer
ShortHashOfDigest(buffer, len) ==
    ReplaceAll(
        ReplaceAll(
            StripPadding(SliceLen(Base64(MaskFirstByte(buffer)), len)),
            "+", "_"),
        "/", "$")

shortHash(str, len) == ShortHashOfDigest(sha256Hash(str, TRUE), len)

----------------------------------------------------------------------------
(* Node's path module, on absolute normalized paths *)

\* the filesystem root of the platform
PathRoot(sep) == IF sep = "/" THEN <<"/">> ELSE <<"C", ":", "\\">>

\* the segments of s[i..] between separators; empty segments are dropped
RECURSIVE SplitFrom(_, _, _)
SplitFrom(s, sep, i) ==
    LET starts == {j \in i..Len(s) : s[j] # sep}
        start == CHOOSE j \in starts : \A x \in starts : j <= x
        ends == {j \in start..Len(s) : s[j] = sep} \cup {Len(s) + 1}
        end == CHOOSE j \in ends : \A x \in ends : j <= x
    IN  IF starts = {} THEN <<>>
        ELSE <<SubSeq(s, start, end - 1)>> \o SplitFrom(s, sep, end)

\* the segments of an absolute path below the root
PathSegments(p, sep) ==
    SplitFrom(p, sep, Len(PathRoot(sep)) + 1)

RECURSIVE JoinSegments(_, _)
JoinSegments(segs, sep) ==
    IF segs = <<>> THEN <<>>
    ELSE IF Len(segs) = 1 THEN segs[1]
    ELSE segs[1] \o <<sep>> \o JoinSegments(Tail(segs), sep)

FromSegments(segs, sep) == PathRoot(sep) \o JoinSegments(segs, sep)

\* path.dirname: the root is its own parent
dirname(p, sep) ==
    LET segs == PathSegments(p, sep)
    IN  IF segs = <<>> THEN PathRoot(sep)
        ELSE FromSegments(SubSeq(segs, 1, Len(segs) - 1), sep)

\* path.join(path, name)
pathJoin(p, name, sep) == FromSegments(Append(PathSegments(p, sep), name), sep)

RECURSIVE CommonPrefixLen(_, _)
CommonPrefixLen(a, b) ==
    IF a = <<>> \/ b = <<>> \/ Head(a) # Head(b) THEN 0
    ELSE 1 + CommonPrefixLen(Tail(a), Tail(b))

\* one ".." for each of the `ups` segments to climb, then the segments `down`
RelativeSegments(ups, down, sep) ==
    JoinSegments([i \in 1..ups |-> <<".", ".">>] \o down, sep)

\* path.relative on segments: `a` those of from, `b` those of to, `c` shared
RelativeFrom(a, b, c, sep) == RelativeSegments(Len(a) - c, SubSeq(b, c + 1, Len(b)), sep)

RelativeOf(a, b, sep) == RelativeFrom(a, b, CommonPrefixLen(a, b), sep)

\* path.relative(from, to)
pathRelative(from, to, sep) == RelativeOf(PathSegments(from, sep), PathSegments(to, sep), sep)

----------------------------------------------------------------------------
(* What a call returns or throws, with the files it read on the way *)

Return(v, rd) == [threw |-> FALSE, value |-> v, reads |-> rd]
Throw(e, rd) == [threw |-> TRUE, value |-> e, reads |-> rd]

\* an Error: who raised it, the plugin-name prefix of its message, the message
Err(source, prefix, message) ==
    [t |-> "error", source |-> source, prefix |-> prefix, message |-> message]

----------------------------------------------------------------------------
(* The filesystem: what fs.readFileSync(pkgPath, 'utf8') gives *)

Enoent == [k |-> "error", code |-> "ENOENT"]
Eacces == [k |-> "error", code |-> "EACCES"]
\* a file that is not JSON
BadJson == [k |-> "text", json |-> FALSE]
\* a file holding a JSON object with these `name` and `version` properties
Json(name, version) == [k |-> "text", json |-> TRUE, name |-> name, version |-> version]

PackageJson == <<"p","a","c","k","a","g","e",".","j","s","o","n">>

readFileSync(fsys, pkgPath) == IF pkgPath \in DOMAIN fsys THEN fsys[pkgPath] ELSE Enoent

----------------------------------------------------------------------------
(* lib/package.js *)

\* a readPackageJson that returns a descriptor whether it has a name or not
PackageJsonPropsAnyName(path, pkgPath, found) ==
    IF found.k = "error"
    THEN IF found.code # "ENOENT"
         THEN Throw(Err("fs", <<>>, found.code), <<pkgPath>>)
         ELSE Return(Undefined, <<pkgPath>>)
    ELSE IF ~found.json
         THEN Throw(Err("JSON.parse", <<>>, "SyntaxError"), <<pkgPath>>)
         ELSE Return([t |-> "object", name |-> found.name,
                      version |-> found.version, path |-> path,
                      pkgPath |-> pkgPath], <<pkgPath>>)

\* a readPackageJson that takes an unreadable or malformed package.json for a
\* missing one
PackageJsonPropsSkipErrors(path, pkgPath, found) ==
    IF found.k = "error" \/ ~found.json \/ ~Truthy(found.name)
    THEN Return(Undefined, <<pkgPath>>)
    ELSE Return([t |-> "object", name |-> found.name,
                 version |-> found.version, path |-> path,
                 pkgPath |-> pkgPath], <<pkgPath>>)

\* readPackageJson from the read on: `found` is what readFileSync gave
PackageJsonProps(path, pkgPath, found) ==
    IF found.k = "error"
    THEN IF found.code # "ENOENT"
         THEN Throw(Err("fs", <<>>, found.code), <<pkgPath>>)
         ELSE Return(Undefined, <<pkgPath>>)
    ELSE IF ~found.json
         THEN Throw(Err("JSON.parse", <<>>, "SyntaxError"), <<pkgPath>>)
         ELSE IF ~Truthy(found.name)
              THEN Return(Undefined, <<pkgPath>>)
              ELSE Return([t |-> "object", name |-> found.name,
                           version |-> found.version, path |-> path,
                           pkgPath |-> pkgPath], <<pkgPath>>)

ReadPackageJsonAt(path, pkgPath, fsys) ==
    PackageJsonProps(path, pkgPath, readFileSync(fsys, pkgPath))

readPackageJson(path, sep, fsys) ==
    ReadPackageJsonAt(path, pathJoin(path, PackageJson, sep), fsys)

\* the loop of findPackageRoot: `rd` are the files read so far
RECURSIVE findPackageRootFrom(_, _, _, _)

\* lines 45-46: `props` is what readPackageJson(path) gave
FoundOrUp(path, props, sep, fsys, rd) ==
    IF props.threw THEN Throw(props.value, rd \o props.reads)
    ELSE IF Truthy(props.value) THEN Return(props.value, rd \o props.reads)
    ELSE findPackageRootFrom(path, sep, fsys, rd \o props.reads)

\* a walk that stops below the filesystem root
UpToBelowRoot(path, parentPath, sep, fsys, rd) ==
    IF parentPath = path \/ dirname(parentPath, sep) = parentPath
    THEN Return(Undefined, rd)
    ELSE FoundOrUp(parentPath, readPackageJson(parentPath, sep, fsys), sep, fsys, rd)

\* lines 42-45
UpTo(path, parentPath, sep, fsys, rd) ==
    IF parentPath = path THEN Return(Undefined, rd)
    ELSE FoundOrUp(parentPath, readPackageJson(parentPath, sep, fsys), sep, fsys, rd)

findPackageRootFrom(path, sep, fsys, rd) == UpTo(path, dirname(path, sep), sep, fsys, rd)

findPackageRoot(path, sep, fsys) == findPackageRootFrom(path, sep, fsys, <<>>)

----------------------------------------------------------------------------
(* lib/index.js *)

\* README, idLength: "41 chars is maximum length"
MaxIdLength == 41
DEFAULT_ID_LEN == 8
ID_STRING == JsSym("babel-unique-id.ID_STRING")
ID_COUNTER == JsSym("babel-unique-id.ID_COUNTER")

\* `${x}` of a string or of undefined
TemplateString(x) ==
    IF x.t = "string" THEN x.v ELSE <<"u","n","d","e","f","i","n","e","d">>

\* tiny-invariant: nothing when the condition holds, otherwise an Error whose
\* message carries the prefix of the invariant function in use
InvariantError(prefix, message) == Err("invariant", prefix, message)

\* for (const key in options) if (options[key] === null) options[key] = undefined
NullsToUndefined(options) ==
    [key \in DOMAIN options |-> IF options[key] = Null THEN Undefined ELSE options[key]]

\* rootPath without its trailing separator
StripTrailingSeparator(rootPath, sep) ==
    IF Truthy(rootPath) /\ rootPath.v # <<sep>> /\ rootPath.v[Len(rootPath.v)] = sep
    THEN JsStr(SubSeq(rootPath.v, 1, Len(rootPath.v) - 1))
    ELSE rootPath

\* the first string option of rootPath, packageName, packageVersion that is
\* neither undefined nor a non-empty string, or "" when all are fine
BadStringOption(o) ==
    IF ~(o.rootPath = Undefined \/ isFullString(o.rootPath)) THEN "rootPath"
    ELSE IF ~(o.packageName = Undefined \/ isFullString(o.packageName)) THEN "packageName"
    ELSE IF ~(o.packageVersion = Undefined \/ isFullString(o.packageVersion))
         THEN "packageVersion"
    ELSE ""

\* the check of lines 192-195
PairingHolds(o) == (~Truthy(o.packageName)) = (~Truthy(o.packageVersion))

\* the check of lines 197-205
IdLengthOk(idLength) == idLength = Undefined \/ isPositiveInteger(idLength)

\* the conformed options, or the first invariant that fails
conformOptions(options, sep) ==
    LET o == NullsToUndefined(options)
        pluginName == o.pluginName
        prefix == IF Truthy(pluginName) THEN pluginName.v ELSE <<>>
    IN  IF ~(pluginName = Undefined \/ isFullString(pluginName))
        THEN Throw(InvariantError(<<>>, "options.pluginName must be non-empty string if provided"), <<>>)
        ELSE IF BadStringOption(o) # ""
        THEN Throw(InvariantError(prefix, "options." \o BadStringOption(o)
                        \o " must be a non-empty string if provided"), <<>>)
        ELSE IF ~(o.isPackage = Undefined \/ isBoolean(o.isPackage))
        THEN Throw(InvariantError(prefix, "options.isPackage must be boolean if provided"), <<>>)
        ELSE IF ~PairingHolds(o)
        THEN Throw(InvariantError(prefix, "packageName and packageVersion options must either be both provided or both omitted"), <<>>)
        ELSE IF ~IdLengthOk(o.idLength)
        THEN Throw(InvariantError(prefix, "options.idLength must be a positive integer if provided"), <<>>)
        ELSE IF ~(o.counterKey = Undefined \/ isSymbol(o.counterKey))
        THEN Throw(InvariantError(prefix, "options.pluginName must be a Symbol if provided"), <<>>)
        ELSE Return([o EXCEPT
                        !.rootPath = StripTrailingSeparator(o.rootPath, sep),
                        !.isPackage = IF o.isPackage = Undefined THEN JsBool(FALSE) ELSE @,
                        !.idLength = IF o.idLength = Undefined THEN JsInt(DEFAULT_ID_LEN) ELSE @,
                        !.counterKey = IF o.counterKey = Undefined THEN ID_COUNTER ELSE @],
                    <<>>)

\* the start of the second version of module.exports (lines 324-339): no
\* validation, defaults by falsiness
conformOptions2(options, sep) ==
    Return([options EXCEPT
                !.rootPath = StripTrailingSeparator(options.rootPath, sep),
                !.idLength = IF Truthy(options.idLength) THEN @ ELSE JsInt(DEFAULT_ID_LEN),
                !.counterKey = IF Truthy(options.counterKey) THEN @ ELSE ID_COUNTER],
           <<>>)

\* the prefix of the messages of getIdStrFromPath's invariants
ErrorPrefix(options) == IF Truthy(options.pluginName) THEN options.pluginName.v ELSE <<>>

\* validatePackage: the error it throws, or Undefined when it returns
validatePackage(packageProps, prefix) ==
    IF packageProps = Undefined
    THEN Err("destructure", <<>>, "TypeError")
    ELSE IF ~Truthy(packageProps.version)
    THEN InvariantError(prefix, "does not contain a version field")
    ELSE IF ~isString(packageProps.name)
    THEN InvariantError(prefix, "contains non-string name field")
    ELSE IF ~isString(packageProps.version)
    THEN InvariantError(prefix, "contains non-string version field")
    ELSE Undefined

\* the version getIdStrFromPath takes from the descriptor read at rootPath
RootPathPackageVersion(packageProps) == packageProps.name

\* lines 260-266: the relative path, POSIX-style, behind its package or path tag
TaggedPath(rel, packageName, packageVersion, sep) ==
    IF Truthy(packageName)
    THEN <<"p","a","c","k","a","g","e",":">> \o TemplateString(packageName)
            \o <<"@">> \o TemplateString(packageVersion) \o <<":">>
            \o (IF sep = "\\" THEN ReplaceAll(rel, "\\", "/") ELSE rel)
    ELSE <<"p","a","t","h",":">>
            \o (IF sep = "\\" THEN ReplaceAll(rel, "\\", "/") ELSE rel)

\* lines 257-266
IdStrOf(rootPath, path, packageName, packageVersion, sep) ==
    TaggedPath(pathRelative(rootPath, path, sep), packageName, packageVersion, sep)

\* isPackage && !packageName
FromPackage(options) == Truthy(options.isPackage) /\ ~Truthy(options.packageName)

\* lines 236-255: the package descriptor getIdStrFromPath reads or searches
PackageProps(path, options, sep, fsys) ==
    IF Truthy(options.rootPath)
    THEN IF FromPackage(options)
         THEN readPackageJson(options.rootPath.v, sep, fsys)
         ELSE Return(Undefined, <<>>)
    ELSE findPackageRoot(path, sep, fsys)

\* getIdStrFromPath once `props` is read: the identity string, undefined
\* when the search found no package root, or the error thrown
IdStrFromProps(path, options, props, sep) ==
    IF props.threw THEN props
    ELSE IF ~Truthy(options.rootPath) /\ ~Truthy(props.value)
    THEN Return(Undefined, props.reads)
    ELSE IF FromPackage(options) /\ validatePackage(props.value, ErrorPrefix(options)) # Undefined
    THEN Throw(validatePackage(props.value, ErrorPrefix(options)), props.reads)
    ELSE Return(
            JsStr(IdStrOf(
                IF Truthy(options.rootPath) THEN options.rootPath.v ELSE props.value.path,
                path,
                IF FromPackage(options) THEN props.value.name ELSE options.packageName,
                IF ~FromPackage(options) THEN options.packageVersion
                ELSE IF Truthy(options.rootPath) THEN RootPathPackageVersion(props.value)
                ELSE props.value.version,
                sep)),
            props.reads)

getIdStrFromPath(path, options, sep, fsys) ==
    IdStrFromProps(path, options, PackageProps(path, options, sep, fsys), sep)

----------------------------------------------------------------------------
(* state.file: a Map behind file.get and file.set *)

EmptyMap == [k \in {} |-> Undefined]
MapGet(store, key) == IF key \in DOMAIN store THEN store[key] ELSE Undefined
MapSet(store, key, value) ==
    [k \in DOMAIN store \cup {key} |-> IF k = key THEN value ELSE store[k]]

CodePrefix == <<"c","o","d","e",":">>

\* a counter that skips a number
IncrementTwice(count) == JsInt(count.num + 2)

\* a counter that stands still
NoIncrement(count) == count

\* count + 1
Increment(count) == JsInt(count.num + 1)

\* a call that throws after it has advanced the default counter
FailedAfterCounting(f, e, rd) ==
    [file |-> [f EXCEPT !.store =
                  MapSet(f.store, ID_COUNTER,
                         Increment(IF Truthy(MapGet(f.store, ID_COUNTER))
                                   THEN MapGet(f.store, ID_COUNTER) ELSE JsInt(0)))],
     threw |-> TRUE, value |-> e, reads |-> rd, computed |-> FALSE,
     hashInput |-> <<>>, counterKey |-> Undefined]

\* a call that throws leaves the file as it was
Failed(f, e, rd) ==
    [file |-> f, threw |-> TRUE, value |-> e, reads |-> rd, computed |-> FALSE,
     hashInput |-> <<>>, counterKey |-> Undefined]

\* lines 144-145: `counted` is the identity string with its counter
Hashed(f, o, got, store, counted) ==
    [file |-> [f EXCEPT !.store = store],
     threw |-> FALSE,
     value |-> JsStr(shortHash(counted, o.idLength)),
     reads |-> got.reads,
     computed |-> got.computed,
     hashInput |-> counted,
     counterKey |-> o.counterKey]

\* lines 141-142: `count` is the counter read
Counted(f, o, got, store, count) ==
    Hashed(f, o, got, MapSet(store, o.counterKey, Increment(count)),
           got.value.v \o <<":">> \o NumberToString(count.num))

\* file.get(counterKey) || 0
CountOf(stored) == IF Truthy(stored) THEN stored ELSE JsInt(0)

\* one counter read for every key: file.get(ID_COUNTER)
WithSharedCounter(f, o, got, store) ==
    Counted(f, o, got, store, CountOf(MapGet(store, ID_COUNTER)))

\* lines 135-140: `got` is the identity string, cached or computed
WithIdStr(f, o, got, store) == Counted(f, o, got, store, CountOf(MapGet(store, o.counterKey)))

StoreIdStr(f, o, got) ==
    IF got.threw THEN Failed(f, got.value, got.reads)
    ELSE WithIdStr(f, o, got,
                   IF got.computed THEN MapSet(f.store, ID_STRING, got.value) ELSE f.store)

\* line 133: the hash of the code when the path gave no identity string
OrCodeHash(f, fromPath) ==
    IF fromPath.threw \/ Truthy(fromPath.value)
    THEN [threw |-> fromPath.threw, value |-> fromPath.value, reads |-> fromPath.reads,
          computed |-> TRUE]
    ELSE [threw |-> FALSE, value |-> JsStr(CodePrefix \o sha256Hash(f.code, FALSE)),
          reads |-> fromPath.reads, computed |-> TRUE]

\* an identity string computed on every call, cached or not
IdStrUncached(f, o, sep, fsys) ==
    OrCodeHash(f, IF Truthy(f.filename)
                  THEN getIdStrFromPath(f.filename.v, o, sep, fsys)
                  ELSE Return(Undefined, <<>>))

\* lines 125-133: the cached identity string, or the one computed now
IdStr(f, o, sep, fsys) ==
    IF Truthy(MapGet(f.store, ID_STRING))
    THEN [threw |-> FALSE, value |-> MapGet(f.store, ID_STRING), reads |-> <<>>,
          computed |-> FALSE]
    ELSE OrCodeHash(f, IF Truthy(f.filename)
                       THEN getIdStrFromPath(f.filename.v, o, sep, fsys)
                       ELSE Return(Undefined, <<>>))

\* module.exports once the options are conformed
Conformed(f, conf, sep, fsys) ==
    IF conf.threw THEN Failed(f, conf.value, <<>>)
    ELSE StoreIdStr(f, conf.value, IdStr(f, conf.value, sep, fsys))

\* module.exports of lib/index.js, version `v`, on the file `f`: the file it
\* leaves, what it returns or throws, the files it read, whether it computed
\* the identity string, the string it handed to shortHash and the counter key
createId(v, f, options, sep, fsys) ==
    Conformed(f,
              IF v = 1 THEN conformOptions(options, sep) ELSE conformOptions2(options, sep),
              sep, fsys)

----------------------------------------------------------------------------
(* The sessions, filesystems and options of the model *)

DirName == <<"a">>
FileName == <<"f", ".", "j", "s">>
PluginName == <<"p", "l", "u", "g">>
PkgName == <<"p", "k", "g">>
PkgVersion == <<"1", ".", "0">>
OptName == <<"l", "i", "b">>
OptVersion == <<"2", ".", "5">>

\* the file being compiled, its directory, and the root above it
FilePath(sep) == FromSegments(<<DirName, FileName>>, sep)
FileDir(sep) == FromSegments(<<DirName>>, sep)

Code1 == <<"f","o","o","(",")",";">>
Code2 == <<"f","o","o","(",")",";","b","a","r","(",")",";">>

\* what the package.json of the file's directory may be
Descriptors ==
    {Enoent, Eacces, BadJson,
     Json(Undefined, Undefined),
     Json(JsStr(PkgName), JsStr(PkgVersion)),
     Json(JsStr(PkgName), Undefined),
     Json(JsInt(5), JsStr(PkgVersion))}

\* what the package.json of the root directory may be
RootDescriptors == {Enoent, Eacces, Json(JsStr(PkgName), JsStr(PkgVersion))}

FileSystems(sep) ==
    {[p \in {pathJoin(FileDir(sep), PackageJson, sep), pathJoin(PathRoot(sep), PackageJson, sep)}
        |-> IF p = pathJoin(FileDir(sep), PackageJson, sep) THEN d ELSE r] :
        d \in Descriptors, r \in RootDescriptors}

NoOptions ==
    [rootPath |-> Undefined, isPackage |-> Undefined, packageName |-> Undefined,
     packageVersion |-> Undefined, idLength |-> Undefined, pluginName |-> Undefined,
     counterKey |-> Undefined]

CounterKeys == {JsSym("K1"), JsSym("K2")}

\* options that decide the identity string, with and without a plugin name
IdentityOptions(sep) ==
    {[NoOptions EXCEPT !.rootPath = r, !.isPackage = p, !.packageName = nv[1],
                       !.packageVersion = nv[2], !.pluginName = g] :
        r \in {Undefined, JsStr(FileDir(sep))},
        p \in {Undefined, JsBool(TRUE)},
        nv \in {<<Undefined, Undefined>>, <<JsStr(OptName), JsStr(OptVersion)>>},
        g \in {Undefined, JsStr(PluginName)}}

\* options that choose the counter
CounterOptions == {[NoOptions EXCEPT !.counterKey = k] : k \in CounterKeys}

\* options that conformOptions has something to say about
ValidationOptions(sep) ==
    {[NoOptions EXCEPT !.idLength = n] :
        n \in {JsInt(0), JsInt(-1), JsNum(3, 2), JsInt(1), JsInt(41), JsInt(42), JsInt(44), Null}}
    \cup {[NoOptions EXCEPT !.packageName = nv[1], !.packageVersion = nv[2], !.pluginName = g] :
            nv \in {<<JsStr(OptName), Undefined>>, <<Undefined, JsStr(OptVersion)>>},
            g \in {Undefined, JsStr(PluginName)}}
    \cup {[NoOptions EXCEPT !.isPackage = p] : p \in {JsBool(FALSE), JsStr(<<"y">>), Null}}
    \cup {[NoOptions EXCEPT !.rootPath = JsStr(<<>>)],
          [NoOptions EXCEPT !.rootPath = JsStr(FileDir(sep) \o <<sep>>)],
          [NoOptions EXCEPT !.pluginName = JsStr(<<>>)],
          [NoOptions EXCEPT !.counterKey = JsStr(<<"c">>)]}

Options(sep) == IdentityOptions(sep) \cup CounterOptions \cup ValidationOptions(sep)

----------------------------------------------------------------------------
(* The state machine *)

NoCall == [called |-> FALSE]

EmptyFile(filename, code) == [filename |-> filename, code |-> code, store |-> EmptyMap]

RECURSIVE SumLen(_, _)
SumLen(h, keys) ==
    IF keys = {} THEN 0
    ELSE LET k == CHOOSE x \in keys : TRUE IN Len(h[k]) + SumLen(h, keys \ {k})

\* successful calls so far
Calls == SumLen(hashed, DOMAIN hashed)

HashIdle == digest = <<>> /\ hashLen = 0 /\ hashOut = Undefined

\* no second session
NoTwin == [twinned |-> FALSE]

Init ==
    /\ impl \in {1, 2}
    /\ pathSeparator \in {"/", "\\"}
    /\ \/ /\ file \in {EmptyFile(Undefined, Code1), EmptyFile(Undefined, Code2)}
          /\ fs = EmptyMap
       \/ /\ file = EmptyFile(JsStr(FilePath(pathSeparator)), Code1)
          /\ fs \in FileSystems(pathSeparator)
    /\ hashed = EmptyMap
    /\ last = NoCall
    /\ HashIdle
    /\ walked = NoCall
    /\ twin = NoTwin

\* the counter key a caller asks for: its own, or the default one
RequestedKey(options) ==
    IF options.counterKey \in {Undefined, Null} THEN ID_COUNTER ELSE options.counterKey

\* the strings handed to shortHash under `key`, with `str` added
Record(h, key, str) == MapSet(h, key, (IF key \in DOMAIN h THEN h[key] ELSE <<>>) \o <<str>>)

\* the effect of a createId call whose outcome is `call`
Called(options, call) ==
    /\ call.threw \/ Calls < MaxCalls
    /\ file' = call.file
    /\ hashed' = IF call.threw THEN hashed
                 ELSE Record(hashed, RequestedKey(options), call.hashInput)
    /\ last' = [called |-> TRUE, options |-> options, threw |-> call.threw,
                value |-> call.value, reads |-> call.reads,
                computed |-> call.computed, hashInput |-> call.hashInput,
                counterKey |-> call.counterKey]

\* the visitor of a plugin calls createId(state, options)
CreateId(options) ==
    /\ last = NoCall
    /\ Called(options, createId(impl, file, options, pathSeparator, fs))
    /\ UNCHANGED <<impl, pathSeparator, fs, digest, hashLen, hashOut, walked, twin>>

\* the visitor goes on with the id, or the error has reached its caller
VisitorContinues ==
    /\ last # NoCall
    /\ last' = NoCall
    /\ UNCHANGED <<impl, pathSeparator, fs, file, hashed, digest, hashLen, hashOut, walked, twin>>

Next ==
    \/ \E options \in Options(pathSeparator) : CreateId(options)
    \/ VisitorContinues

Spec == Init /\ [][Next]_vars

----------------------------------------------------------------------------
(* lib/hash.js on its own: shortHash over sample digests and every length *)

FirstBytes == {0, 127, 128, 212, 248, 255}
BytePatterns == {<<0, 0, 0>>, <<255, 255, 255>>, <<251, 239, 190>>, <<215, 109, 248>>}

\* digests whose base64 holds 'A', '/', '+' and digits at every position
Digests ==
    {[i \in 1..DigestBytes |-> IF i = 1 THEN b ELSE pat[((i - 2) % 3) + 1]] :
        b \in FirstBytes, pat \in BytePatterns}

InitHash ==
    /\ impl = 1
    /\ pathSeparator = "/"
    /\ fs = EmptyMap
    /\ file = EmptyFile(Undefined, Code1)
    /\ hashed = EmptyMap
    /\ last = NoCall
    /\ digest \in Digests
    /\ hashLen = 0
    /\ hashOut = Undefined
    /\ walked = NoCall
    /\ twin = NoTwin

\* shortHash(str, len) for a string whose digest is `digest`
ShortHash(len) ==
    /\ hashLen' = len
    /\ hashOut' = JsStr(ShortHashOfDigest(digest, JsInt(len)))
    /\ UNCHANGED <<impl, pathSeparator, fs, file, hashed, last, digest, walked, twin>>

NextHash == \E len \in 0..MaxHashLen : ShortHash(len)

SpecHash == InitHash /\ [][NextHash]_vars

----------------------------------------------------------------------------
(* lib/package.js on its own: findPackageRoot, and createId above it, on a
   file two directories deep *)

SubDirName == <<"b">>

\* the directories above the file, nearest first
DeepDirs(sep) ==
    <<FromSegments(<<DirName, SubDirName>>, sep), FromSegments(<<DirName>>, sep), PathRoot(sep)>>

DeepFilePath(sep) == FromSegments(<<DirName, SubDirName, FileName>>, sep)

\* every choice of package.json for the three directories
DeepFileSystems(sep) ==
    {[p \in {pathJoin(DeepDirs(sep)[i], PackageJson, sep) : i \in 1..3}
        |-> ds[CHOOSE i \in 1..3 : p = pathJoin(DeepDirs(sep)[i], PackageJson, sep)]] :
        ds \in [1..3 -> Descriptors]}

\* options that leave the package root to be found
WalkOptions ==
    {NoOptions,
     [NoOptions EXCEPT !.isPackage = JsBool(TRUE), !.pluginName = JsStr(PluginName)]}

InitWalk ==
    /\ impl \in {1, 2}
    /\ pathSeparator \in {"/", "\\"}
    /\ file = EmptyFile(JsStr(DeepFilePath(pathSeparator)), Code1)
    /\ fs \in DeepFileSystems(pathSeparator)
    /\ hashed = EmptyMap
    /\ last = NoCall
    /\ HashIdle
    /\ walked = NoCall
    /\ twin = NoTwin

\* findPackageRoot(path) for the path of the file
FindPackageRoot ==
    /\ walked = NoCall
    /\ walked' = findPackageRoot(file.filename.v, pathSeparator, fs)
    /\ UNCHANGED <<impl, pathSeparator, fs, file, hashed, last, digest, hashLen, hashOut, twin>>

NextWalk ==
    \/ FindPackageRoot
    \/ \E options \in WalkOptions : CreateId(options)
    \/ VisitorContinues

SpecWalk == InitWalk /\ [][NextWalk]_vars

----------------------------------------------------------------------------
(* Two sessions: a second Babel state for the same file, on the same
   filesystem, given the calls of the first in the same order *)

\* a call that works on the file of another state than its own
OtherStateFile(own, other) == other

\* const {file} = state: the file of the state the call is given
StateFile(own, other) == own

\* options of the calls both sessions make
TwinOptions(sep) ==
    {NoOptions,
     [NoOptions EXCEPT !.counterKey = JsSym("K1")],
     [NoOptions EXCEPT !.rootPath = JsStr(FileDir(sep)), !.isPackage = JsBool(TRUE)],
     [NoOptions EXCEPT !.packageName = JsStr(OptName)]}

\* the package.json of the file's directory and of the root
TwinDescriptors ==
    {<<Enoent, Enoent>>,
     <<Json(JsStr(PkgName), JsStr(PkgVersion)), Enoent>>,
     <<BadJson, Json(JsStr(PkgName), JsStr(PkgVersion))>>,
     <<Json(Undefined, Undefined), Json(JsStr(PkgName), JsStr(PkgVersion))>>}

TwinFileSystems(sep) ==
    {fsys \in FileSystems(sep) :
        <<fsys[pathJoin(FileDir(sep), PackageJson, sep)],
          fsys[pathJoin(PathRoot(sep), PackageJson, sep)]>> \in TwinDescriptors}

InitTwin ==
    /\ impl \in {1, 2}
    /\ pathSeparator \in {"/", "\\"}
    /\ \/ /\ file \in {EmptyFile(Undefined, Code1), EmptyFile(Undefined, Code2)}
          /\ fs = EmptyMap
       \/ /\ file = EmptyFile(JsStr(FilePath(pathSeparator)), Code1)
          /\ fs \in TwinFileSystems(pathSeparator)
    /\ hashed = EmptyMap
    /\ last = NoCall
    /\ HashIdle
    /\ walked = NoCall
    /\ twin = [twinned |-> TRUE, file |-> file, log |-> <<>>, replay |-> <<>>]

\* the first session calls createId(state, options)
FirstCreateId(options) ==
    /\ last = NoCall
    /\ Len(twin.log) < MaxCalls
    /\ Called(options, createId(impl, file, options, pathSeparator, fs))
    /\ twin' = [twin EXCEPT !.log = Append(@, [options |-> options, threw |-> last'.threw,
                                               value |-> last'.value])]
    /\ UNCHANGED <<impl, pathSeparator, fs, digest, hashLen, hashOut, walked>>

\* the effect on the second session of a call whose outcome is `call`
Replayed(call) ==
    twin' = [twin EXCEPT !.file = call.file,
                         !.replay = Append(@, [threw |-> call.threw, value |-> call.value])]

\* the second session makes its next call, with the options the first
\* session's call of the same rank had
SecondCreateId ==
    /\ Len(twin.replay) < Len(twin.log)
    /\ Replayed(createId(impl, StateFile(twin.file, file),
                         twin.log[Len(twin.replay) + 1].options, pathSeparator, fs))
    /\ UNCHANGED <<impl, pathSeparator, fs, file, hashed, last, digest, hashLen, hashOut, walked>>

NextTwin ==
    \/ \E options \in TwinOptions(pathSeparator) : FirstCreateId(options)
    \/ SecondCreateId
    \/ VisitorContinues

SpecTwin == InitTwin /\ [][NextTwin]_vars

----------------------------------------------------------------------------
(* Properties of the counters *)

\* the identity string stored on the file
StoredIdStr == MapGet(file.store, ID_STRING)

StartsWith(s, pre) == Len(s) >= Len(pre) /\ SubSeq(s, 1, Len(pre)) = pre

\* the last step was a createId call that returned a token
Returned == last.called /\ ~last.threw

\* C1: the n-th successful call made with counter key k hands shortHash the
\* identity string followed by ':' and n-1, and leaves n stored under k: the
\* counter of a key starts at 0 and goes up by exactly 1 per call with the key
CounterCountsCalls ==
    \A k \in DOMAIN hashed :
        /\ MapGet(file.store, k) = JsInt(Len(hashed[k]))
        /\ \A n \in 1..Len(hashed[k]) :
              hashed[k][n] = StoredIdStr.v \o <<":">> \o NumberToString(n - 1)

\* two keys counted, one of them twice
CountedTwice ==
    /\ JsSym("K1") \in DOMAIN hashed
    /\ Len(hashed[JsSym("K1")]) = 2
    /\ MapGet(file.store, JsSym("K1")) = JsInt(2)
    /\ ID_COUNTER \in DOMAIN hashed

\* C2: the strings handed to shortHash by the calls of one session made with
\* the same counter key are pairwise distinct
HashInputsDistinct ==
    \A k \in DOMAIN hashed :
        \A i, j \in 1..Len(hashed[k]) : i # j => hashed[k][i] # hashed[k][j]

\* one key used on three calls
ThreeCallsOneKey == \E k \in DOMAIN hashed : Len(hashed[k]) >= 3

\* C3: a successful call with counter key k adds 1 to the counter stored under
\* k (0 when there is none yet) and changes no other counter; a call that
\* throws changes none
CountersIndependent ==
    [][/\ \A k \in (DOMAIN file.store \cup DOMAIN file'.store) \ {ID_STRING} :
             IF last'.called /\ ~last'.threw /\ k = RequestedKey(last'.options)
             THEN MapGet(file'.store, k)
                    = JsInt((IF k \in DOMAIN file.store THEN file.store[k].num ELSE 0) + 1)
             ELSE MapGet(file'.store, k) = MapGet(file.store, k)
       /\ (last'.called /\ ~last'.threw)
             => RequestedKey(last'.options) \in DOMAIN file'.store]_vars

\* a first call with key K2 after two calls with the default key
SecondKeyStartsAfresh ==
    /\ Returned
    /\ last.options.counterKey = JsSym("K2")
    /\ MapGet(file.store, JsSym("K2")) = JsInt(1)
    /\ MapGet(file.store, ID_COUNTER) = JsInt(2)

----------------------------------------------------------------------------
(* Properties of the identity string *)

\* C4: once the identity string is stored on the file, it never changes, and
\* every later call reads no package.json, computes nothing and hands shortHash
\* the stored string with its counter
IdStrReused ==
    [][Truthy(StoredIdStr) =>
          /\ MapGet(file'.store, ID_STRING) = StoredIdStr
          /\ last'.called =>
                /\ last'.reads = <<>>
                /\ ~last'.computed
                /\ ~last'.threw => StartsWith(last'.hashInput, StoredIdStr.v \o <<":">>)]_vars

\* a later call whose options name a root path, on a file whose identity
\* string is the hash of its code
ReusedDespiteRootPath ==
    /\ Returned
    /\ ~last.computed
    /\ Truthy(last.options.rootPath)
    /\ file.filename # Undefined
    /\ StartsWith(StoredIdStr.v, CodePrefix)
    /\ StartsWith(last.hashInput, StoredIdStr.v)

\* no package.json above the file holds a name
NoNamedAncestor ==
    \A pkgPath \in DOMAIN fs :
        ~(fs[pkgPath].k = "text" /\ fs[pkgPath].json /\ Truthy(fs[pkgPath].name))

\* C5: the identity string a call computes and stores is 'code:' and the base64
\* SHA-256 of the code exactly when the file has no path, or it has one but no
\* rootPath is configured and no ancestor directory has a named package.json;
\* otherwise it starts with 'path:' or 'package:'
CodeFormWhenNoRoot ==
    (Returned /\ last.computed) =>
        /\ StoredIdStr.v = CodePrefix \o Base64(Sha256(file.code))
              <=> \/ file.filename = Undefined
                  \/ ~Truthy(last.options.rootPath) /\ NoNamedAncestor
        /\ \/ StoredIdStr.v = CodePrefix \o Base64(Sha256(file.code))
           \/ StartsWith(StoredIdStr.v, <<"p","a","t","h",":">>)
           \/ StartsWith(StoredIdStr.v, <<"p","a","c","k","a","g","e",":">>)

\* a file with a path whose identity string is the hash of its code
CodeFormWithPath ==
    /\ Returned
    /\ last.computed
    /\ file.filename # Undefined
    /\ StoredIdStr.v = CodePrefix \o Base64(Sha256(file.code))

\* the package.json at the root path the options name
RootDescriptor ==
    readFileSync(fs, pathJoin(last.options.rootPath.v, PackageJson, pathSeparator))

\* C6: with rootPath, isPackage and no packageName, the identity string is
\* 'package:<name>@<version>:<relative path>' with the name and the version of
\* the package.json at rootPath
VersionFromRootDescriptor ==
    (/\ Returned
     /\ last.computed
     /\ file.filename # Undefined
     /\ last.options.rootPath = JsStr(FileDir(pathSeparator))
     /\ last.options.isPackage = JsBool(TRUE)
     /\ last.options.packageName = Undefined)
        => StoredIdStr.v = <<"p","a","c","k","a","g","e",":">> \o RootDescriptor.name.v
                            \o <<"@">> \o RootDescriptor.version.v \o <<":">> \o FileName

----------------------------------------------------------------------------
(* Properties of the options *)

\* an option the caller gave
Given(option) == option \notin {Undefined, Null}

\* C7: a call whose options give packageName without packageVersion, or
\* packageVersion without packageName, throws
PairingEnforced ==
    (last.called /\ Given(last.options.packageName) # Given(last.options.packageVersion))
        => last.threw

InRange(idLength) ==
    idLength.t = "number" /\ idLength.den = 1 /\ idLength.num \in 1..MaxIdLength

\* C8: a call whose idLength is given and is not an integer from 1 to 41
\* throws, and a call without idLength returns a token of 8 characters
IdLengthEnforced ==
    last.called =>
        /\ (Given(last.options.idLength) /\ ~InRange(last.options.idLength)) => last.threw
        /\ (~Given(last.options.idLength) /\ ~last.threw)
              => Len(last.value.v) = DEFAULT_ID_LEN

----------------------------------------------------------------------------
(* Properties of shortHash *)

DigitChars == {"0", "1", "2", "3", "4", "5", "6", "7", "8", "9"}
IdentifierChars == {Base64Alphabet[i] : i \in 1..62} \cup {"_", "$"}

\* shortHash was called with a length of 1 to 41
HashedInRange == hashOut # Undefined /\ hashLen \in 1..MaxIdLength

\* C9: for lengths 1 to 41 the token shortHash returns holds only the
\* characters A-Z, a-z, 0-9, '_' and '$', and does not start with a digit
TokenIsIdentifier ==
    HashedInRange =>
        /\ \A i \in 1..Len(hashOut.v) : hashOut.v[i] \in IdentifierChars
        /\ hashOut.v # <<>>
        /\ hashOut.v[1] \notin DigitChars

\* a token of 41 characters with a '$' in it, from a digest whose first
\* base64 character would be a digit were its top bit not cleared
MaskedToken ==
    /\ HashedInRange
    /\ hashLen = MaxIdLength
    /\ digest[1] = 212
    /\ \E i \in 1..Len(hashOut.v) : hashOut.v[i] = "$"

\* the token in full: the base64 of the masked digest, its padding stripped,
\* then '+' and '/' replaced
FullToken ==
    ReplaceAll(ReplaceAll(StripPadding(Base64(MaskFirstByte(digest))), "+", "_"), "/", "$")

\* C10: for lengths 1 to 41 shortHash returns exactly `length` characters, the
\* first `length` characters of the token in full
TokenIsPrefix ==
    HashedInRange =>
        /\ Len(hashOut.v) = hashLen
        /\ hashOut.v = SubSeq(FullToken, 1, hashLen)

\* a token of 41 characters that had a '+' to replace
LongestToken ==
    /\ HashedInRange
    /\ hashLen = MaxIdLength
    /\ Len(hashOut.v) = MaxIdLength
    /\ \E i \in 1..Len(hashOut.v) : hashOut.v[i] = "_"

----------------------------------------------------------------------------
(* Properties of the search for the package root *)

\* the package.json of the i-th directory above the file, nearest first
DescriptorAt(i) == readFileSync(fs, pathJoin(DeepDirs(pathSeparator)[i], PackageJson, pathSeparator))

\* a package.json that exists, parses and declares a truthy name
Qualifies(d) == d.k = "text" /\ d.json /\ Truthy(d.name)

\* a package.json that is missing, or parses and has no name
Skipped(d) == (d.k = "error" /\ d.code = "ENOENT") \/ (d.k = "text" /\ d.json /\ ~Truthy(d.name))

\* the directories above the file that qualify, and the nearest of them
Qualifying == {i \in 1..3 : Qualifies(DescriptorAt(i))}
Nearest == CHOOSE i \in Qualifying : \A j \in Qualifying : i <= j

\* the directories the walk visits: all of them, or those up to the nearest
\* that qualifies
Visited == IF Qualifying = {} THEN 1..3 ELSE 1..Nearest

Aborting == {i \in Visited : ~Skipped(DescriptorAt(i)) /\ ~Qualifies(DescriptorAt(i))}

\* C12: when a directory the walk visits has a package.json that cannot be
\* read for another reason than not existing, or is not JSON, findPackageRoot
\* throws that error, and so does every createId call that has to find the
\* package root: the file gets no identity string, the hash of the code
\* included, whatever the directories above hold
WalkAborts ==
    Aborting # {} =>
        /\ walked # NoCall =>
              /\ walked.threw
              /\ walked.value.source \in {"fs", "JSON.parse"}
        /\ last.called =>
              /\ last.threw
              /\ last.value.source \in {"fs", "JSON.parse"}
        /\ file.store = EmptyMap

\* a createId call and a walk that threw on a malformed package.json below a
\* named one
AbortedBelowNamed ==
    /\ DescriptorAt(1) = Enoent
    /\ DescriptorAt(2) = BadJson
    /\ Qualifies(DescriptorAt(3))
    /\ walked # NoCall
    /\ walked.threw
    /\ last.called
    /\ last.threw
    /\ last.value.source = "JSON.parse"

----------------------------------------------------------------------------
(* Properties of failing calls *)

\* C13: a createId call with rootPath, isPackage and no packageName, on a file
\* with a path and no identity string yet, whose rootPath holds no package.json
\* or a nameless one, throws an invariant error, its message prefixed with
\* pluginName when there is one
NoDescriptorAtRootPath ==
    (/\ last.called
     /\ file.filename # Undefined
     /\ ~Truthy(StoredIdStr)
     /\ last.options.rootPath = JsStr(FileDir(pathSeparator))
     /\ last.options.isPackage = JsBool(TRUE)
     /\ last.options.packageName = Undefined
     /\ Skipped(RootDescriptor))
        => /\ last.threw
           /\ last.value.source = "invariant"
           /\ last.value.prefix
                = (IF Truthy(last.options.pluginName) THEN last.options.pluginName.v ELSE <<>>)

\* C15: a createId call that throws, for whatever reason, leaves state.file as
\* it was: the identity string is not stored and no counter moves
FailureLeavesSession ==
    [][(last'.called /\ last'.threw) => file' = file]_vars

\* a call that threw on a file with an identity string and two ids counted
FailedAfterTwoIds ==
    /\ last.called
    /\ last.threw
    /\ Truthy(StoredIdStr)
    /\ MapGet(file.store, ID_COUNTER) = JsInt(2)

----------------------------------------------------------------------------
(* Properties of two sessions *)

====
